---- MODULE Spec2Model ----
(***************************************************************************)
(* GitSmart: a Flask route layer (app.py) over a GitHub REST client        *)
(* (utils/github_api.py).  One inbound request is handled at a time; a     *)
(* handler is a sequence of steps, one per outbound call.  The upstream    *)
(* (GitHub, raw.githubusercontent.com) is the environment: its state       *)
(* during a request is the record `up`, drawn when the request starts, and *)
(* every outbound call may in addition fail in transport (the requests     *)
(* library raises).                                                        *)
(***************************************************************************)
EXTENDS Integers, Sequences, FiniteSets, TLC

VARIABLES
    session,         \* Flask session: the token ("pat") and the username
    pc,              \* where the handler of the current request stands
    req,             \* the request's arguments, as the handler reads them
    up,              \* the upstream during this request
    store,           \* the repository's files upstream: path -> sha (0: absent)
    tried,           \* api_get_file: `tried`
    content,         \* api_get_file: `content`
    default_branch,  \* api_get_file: `default_branch`
    idx,             \* position of the running loop
    upload_list,     \* api_upload_files: `upload_list` (the paths)
    results,         \* bulk_upload / api_upload_files: `results`
    sha,             \* upload_file: `sha`
    caller,          \* who called upload_file
    calls,           \* the outbound calls of this request, in order
    resp             \* the response of this request

vars == <<session, pc, req, up, store, tried, content, default_branch, idx,
          upload_list, results, sha, caller, calls, resp>>

\* What api_get_file leaves alone besides the session.
others == <<store, upload_list, results, sha, caller>>

\* ------------------------------------------------------------------ bounds
\* Branch names other than the two literals "main" and "master".
NumExtraBranches == 1

ExtraNames == <<"dev", "release", "hotfix">>

Branches == {"main", "master"} \cup {ExtraNames[i] : i \in 1..NumExtraBranches}

\* ------------------------------------------------------------ Python values
\* The empty string: a missing query argument, form field or dict key.
Blank == ""

\* A string of white space only: truthy in Python, empty after .strip().
Spaces == " "

strip(s) == IF s = Spaces THEN Blank ELSE s

\* Values of `c` and `content`: None, a decoded text, or an {"error": ..} dict.
None == [kind |-> "None", src |-> Blank, ref |-> Blank, error |-> Blank]

Text(src, ref) == [kind |-> "text", src |-> src, ref |-> ref, error |-> Blank]

ErrorDict(msg) == [kind |-> "dict", src |-> Blank, ref |-> Blank, error |-> msg]

IsErrorDictBug(c) == FALSE

\* isinstance(c, dict) and c.get("error")
IsErrorDict(c) == c.kind = "dict" /\ c.error # Blank

\* ------------------------------------------------------------ the session
NoSession == [pat |-> Blank, username |-> Blank]

Tokens == {"pat1"}

UserOf(pat) == "alice"

\* get_gh(): a client, or None when the session holds no token.
get_gh == IF session.pat = Blank THEN "None" ELSE "GitHubAPI"

\* ------------------------------------------------------- upstream answers
\* An HTTP answer.  status 0 stands for the call raising (transport failure,
\* or a body that is not the JSON object the client expects).
Http(status, json, message, text) ==
    [status |-> status, json |-> json, message |-> message, text |-> text,
     sha |-> 0]

\* The sha of a file that does not exist; `sha = None` in upload_file.
NoSha == 0

Raised == Http(0, FALSE, Blank, None)

\* What the upstream is during one request: it serves the API normally
\* ("ok"), rejects the token ("rejected": 401 Bad credentials) or is out of
\* service ("down": 502 with a body that is not JSON).
Modes == {"ok", "rejected", "down"}

Upstreams ==
    {u \in [mode : Modes, default : Branches \cup {Blank},
            fileOn : SUBSET Branches, rawOn : SUBSET Branches] :
        u.mode # "ok" => (u.default = Blank /\ u.fileOn = {})}

NoUpstream == [mode |-> "ok", default |-> Blank, fileOn |-> {}, rawOn |-> {}]

\* What the API answers when it does not serve the request.
Refusal(u, notFound) ==
    CASE u.mode = "rejected" -> Http(401, TRUE, "Bad credentials", None)
      [] u.mode = "down" -> Http(502, FALSE, Blank, None)
      [] OTHER -> notFound

\* GET /repos/{owner}/{repo}/contents/{path}?ref=b
ContentsAnswers(u, b) ==
    { IF u.mode = "ok" /\ b \in u.fileOn
        THEN Http(200, TRUE, Blank, Text("api", b))
        ELSE Refusal(u, Http(404, TRUE, "Not Found", None)),
      Raised }

\* GET /repos/{owner}/{repo}
RepoAnswers(u) ==
    { IF u.mode = "ok" /\ u.default # Blank
        THEN Http(200, TRUE, Blank, Text("repo", u.default))
        ELSE Refusal(u, Http(404, TRUE, "Not Found", None)),
      Raised }

\* GET https://raw.githubusercontent.com/{owner}/{repo}/{b}/{path}
RawAnswers(u, b) ==
    { IF b \in u.rawOn THEN Http(200, FALSE, Blank, Text("raw", b))
                       ELSE Http(404, FALSE, Blank, None),
      Raised }

\* ------------------------------------------------------ GitHubAPI methods
\* get_file_text: the value returned for an answer that did not raise.
get_file_text(r) ==
    IF r.status = 200 THEN r.text
    ELSE IF r.json THEN ErrorDict(r.message)
    ELSE None

\* r.text of an answer that carries no file: the body as a string.
BodyText(r) == IF r.json THEN r.message ELSE "html"

\* get_repo_info: the repository's JSON, or {"message": r.text}.  A key
\* that is absent reads as Blank.
get_repo_info(r) ==
    IF r.status \in {200, 201}
      THEN [default_branch |-> r.text.ref, message |-> Blank]
      ELSE [default_branch |-> Blank, message |-> BodyText(r)]

\* ------------------------------------------------------------- responses
NoResp == [status |-> 0, success |-> FALSE, error |-> Blank, tried |-> <<>>,
           content |-> None, files |-> <<>>]

Json(status, success, error) ==
    [status |-> status, success |-> success, error |-> error, tried |-> <<>>,
     content |-> None, files |-> <<>>]

\* An outbound call: what was sent (method, endpoint, branch or path or name,
\* the sha of the payload) and the status of the answer (0: it raised).
\* The payload of a call that the log does not look into.
NoPayload == [language |-> Blank, file |-> Blank]

Call(method, api, arg, r) ==
    [method |-> method, api |-> api, arg |-> arg, sha |-> NoSha,
     payload |-> NoPayload, status |-> r.status, json |-> r.json]

InSeq(x, s) == \E i \in 1..Len(s) : s[i] = x

NotTriedBug(b) == TRUE

\* `b not in tried`
NotTried(b) == ~InSeq(b, tried)

\* A handler returns: the response is recorded and the request is over.
Return(r) ==
    /\ resp' = r
    /\ pc' = "done"

\* `except Exception as e: return jsonify({... str(e)}), 500`
Return500 == Return(Json(500, FALSE, "exception"))

\* ------------------------------------------------- repository contents
\* Names of uploaded files.
Paths == {"a.py", "b.py"}

\* api_create_repo, lines 180-186: the files a new repository is given.
EnsurePaths == <<"README.md", "LICENSE", ".github/workflows/ci.yml">>

StorePaths == Paths \cup {EnsurePaths[i] : i \in 1..Len(EnsurePaths)}

NoStore == [p \in StorePaths |-> NoSha]

\* The stores in which only paths of ps may exist.
StoresOver(ps) ==
    {st \in [StorePaths -> {NoSha, 1}] : \A p \in StorePaths \ ps : st[p] = NoSha}

\* Upstreams of a request that works on the default branch only.
ServiceUpstreams ==
    {u \in Upstreams : u.fileOn = {} /\ u.rawOn = {} /\ u.default \in {Blank, "main"}}

\* The answer of the API: `normal` when it serves the request.
Served(u, normal) == IF u.mode = "ok" THEN normal ELSE Refusal(u, normal)

\* Most calls of one upload request that fail in transport.
MaxRaises == 2

\* Raised, while the request has seen fewer than MaxRaises calls raise.
MayRaise(log) ==
    IF Cardinality({i \in 1..Len(log) : log[i].status = 0}) < MaxRaises
      THEN {Raised} ELSE {}

\* GET /repos/{owner}/{repo}/contents/{path} without ref: the lookup of
\* upload_file, delete_file and file_exists.
LookupAnswers(u, st, p) ==
    { Served(u, IF st[p] # NoSha
                  THEN [Http(200, TRUE, Blank, None) EXCEPT !.sha = st[p]]
                  ELSE Http(404, TRUE, "Not Found", None)),
      Raised }

\* PUT /repos/{owner}/{repo}/contents/{path} with payload sha s: the write
\* is accepted when s is the file's current sha (none for a new file); the
\* upstream may also refuse a write for reasons of its own (422).
PutAnswers(u, st, p, s) ==
    { Served(u, IF st[p] = s
                  THEN [Http(IF s = NoSha THEN 201 ELSE 200, TRUE, Blank, None)
                          EXCEPT !.sha = st[p] + 1]
                  ELSE Http(IF s = NoSha THEN 422 ELSE 409, TRUE,
                            "sha does not match", None)),
      Http(422, TRUE, "Validation Failed", None),
      Raised }

\* POST /user/repos
CreateAnswers(u) ==
    { Served(u, IF u.default = Blank
                  THEN Http(201, TRUE, Blank, None)
                  ELSE Http(422, TRUE, "name already exists on this account", None)),
      Raised }

\* DELETE /repos/{owner}/{repo}/contents/{path} with payload sha s
DeleteAnswers(u, st, p, s) ==
    { Served(u, IF st[p] = s /\ s # NoSha
                  THEN Http(200, TRUE, Blank, None)
                  ELSE Http(409, TRUE, "sha does not match", None)),
      Raised }

\* DELETE /repos/{owner}/{repo}
DeleteRepoAnswers(u) ==
    { Served(u, IF u.default # Blank THEN Http(204, FALSE, Blank, None)
                                     ELSE Http(404, TRUE, "Not Found", None)),
      Raised }

\* Most full pages (100 repositories) the account's repository list has.
MaxPages == 2

\* GET /user/repos?page=n: an empty, a short or (up to MaxPages) a full page.
ReposAnswers(u, page) ==
    { Served(u, Http(200, TRUE, Blank, Text("repos", k))) :
        k \in {"empty", "short"} \cup (IF page <= MaxPages THEN {"full"} ELSE {}) }
    \cup {Raised}

\* GET /repos/{owner}/{repo}/git/trees/{b}?recursive=1
TreeAnswers(u, b) ==
    { Served(u, IF u.default # Blank /\ b = u.default
                  THEN Http(200, TRUE, Blank, Text("tree", b))
                  ELSE Http(404, TRUE, "Not Found", None)),
      Raised }

\* GET /repos/{owner}/{repo}/contents
RootAnswers(u) ==
    { Served(u, IF u.default # Blank
                  THEN Http(200, TRUE, Blank, Text("list", u.default))
                  ELSE Http(404, TRUE, "Not Found", None)),
      Raised }

\* GET /repos/{owner}/{repo}/zipball/{b}
ZipAnswers(u, b) ==
    { Served(u, IF b \in u.fileOn
                  THEN Http(200, FALSE, Blank, Text("zip", b))
                  ELSE Http(404, TRUE, "Not Found", None)),
      Raised }

\* HEAD https://github.com/{owner}/{repo}/archive/refs/heads/{b}.zip
HeadAnswers(u, b) ==
    { IF b \in u.rawOn THEN Http(200, FALSE, Blank, None)
                       ELSE Http(404, FALSE, Blank, None),
      Raised }

\* POST to the execution endpoint e: the service is its own upstream.  It
\* runs the program, answers 200 with a body that is not JSON (a proxy's
\* page), fails, or the call raises.
PistonAnswers(e) ==
    { Http(200, TRUE, Blank, Text("run", e)), Http(200, FALSE, Blank, None),
      Http(500, FALSE, Blank, None), Raised }

\* The JSON upload_file returns for a file that was written.
Uploaded(p) == [kind |-> "json", src |-> "put", ref |-> p, error |-> Blank]

\* upload_file, lines 151-156: the value returned for the PUT's answer.
upload_file(r, p) ==
    IF r.status \in {200, 201} THEN Uploaded(p) ELSE ErrorDict(BodyText(r))

\* Longest upload of one request.
MaxFiles == 3

UploadLists == UNION {[1..n -> Paths] : n \in 0..MaxFiles}

NoReq == [endpoint |-> Blank, owner |-> Blank, repo |-> Blank, path |-> Blank,
          branch |-> Blank, language |-> Blank]

Init ==
    /\ session = NoSession
    /\ pc = "idle"
    /\ req = NoReq
    /\ up = NoUpstream
    /\ tried = <<>>
    /\ content = None
    /\ default_branch = Blank
    /\ idx = 0
    /\ calls = <<>>
    /\ resp = NoResp
    /\ store = NoStore
    /\ upload_list = <<>>
    /\ results = <<>>
    /\ sha = NoSha
    /\ caller = Blank

\* ---------------------------------------------------------- api_get_file
FetchBug(b, r, next) ==
    /\ tried' = Append(tried, b)
    /\ calls' = Append(calls, Call("PUT", "contents", b, r))
    /\ IF r = Raised
         THEN /\ Return500
              /\ UNCHANGED content
         ELSE LET c == get_file_text(r) IN
              /\ content' = IF IsErrorDict(c) THEN None ELSE c
              /\ pc' = next
              /\ UNCHANGED resp

\* The `c = gh.get_file_text(.., ref=b)` / `content = ...` block that follows
\* each `tried.append(b)`.
Fetch(b, r, next) ==
    /\ tried' = Append(tried, b)
    /\ calls' = Append(calls, Call("GET", "contents", b, r))
    /\ IF r = Raised
         THEN /\ Return500
              /\ UNCHANGED content
         ELSE LET c == get_file_text(r) IN
              /\ content' = IF IsErrorDict(c) THEN None ELSE c
              /\ pc' = next
              /\ UNCHANGED resp

\* Lines 320-331: arguments, validation, the client, the empty `tried`.
api_get_file ==
    /\ pc = "idle"
    /\ \E owner \in {Blank, "bob"}, repo, path \in {Blank, Spaces, "x"},
          branch \in {Blank, Spaces} \cup Branches :
         LET o == IF owner # Blank THEN owner ELSE session.username
             rq == [NoReq EXCEPT !.endpoint = "api_get_file", !.owner = o,
                                 !.repo = strip(repo), !.path = strip(path),
                                 !.branch = strip(branch)]
         IN /\ req' = rq
            /\ calls' = <<>>
            /\ tried' = <<>>
            /\ content' = None
            /\ default_branch' = Blank
            /\ idx' = 0
            /\ IF rq.owner = Blank \/ rq.repo = Blank \/ rq.path = Blank
                 THEN /\ Return(Json(400, FALSE, "owner, repo, path required"))
                      /\ up' = NoUpstream
               ELSE IF get_gh = "None"
                 THEN /\ Return(Json(500, FALSE, "GitHub client unavailable"))
                      /\ up' = NoUpstream
               ELSE /\ up' \in Upstreams
                    /\ pc' = "gf_hint"
                    /\ resp' = NoResp
    /\ store' = NoStore
    /\ upload_list' = <<>>
    /\ results' = <<>>
    /\ sha' = NoSha
    /\ caller' = Blank
    /\ UNCHANGED session
    /\ UNCHANGED others

\* Lines 332-338: the branch hint.
gf_hint ==
    /\ pc = "gf_hint"
    /\ IF req.branch # Blank
         THEN \E r \in ContentsAnswers(up, req.branch) :
                 Fetch(req.branch, r, "gf_info")
         ELSE /\ pc' = "gf_info"
              /\ UNCHANGED <<tried, calls, content, resp>>
    /\ UNCHANGED <<session, req, up, default_branch, idx>>
    /\ UNCHANGED others

\* Lines 339-341: the repository's default branch.
gf_info ==
    /\ pc = "gf_info"
    /\ IF content = None
         THEN \E r \in RepoAnswers(up) :
                /\ calls' = Append(calls, Call("GET", "repo", Blank, r))
                /\ IF r = Raised
                     THEN /\ Return500
                          /\ UNCHANGED default_branch
                     ELSE /\ default_branch' = get_repo_info(r).default_branch
                          /\ pc' = "gf_default"
                          /\ UNCHANGED resp
         ELSE /\ pc' = "gf_loop"
              /\ idx' = 1
              /\ UNCHANGED <<calls, default_branch, resp>>
    /\ IF content = None THEN UNCHANGED idx ELSE TRUE
    /\ UNCHANGED <<session, req, up, tried, content>>
    /\ UNCHANGED others

\* Lines 342-348: the fetch on the default branch, unless already tried.
gf_default ==
    /\ pc = "gf_default"
    /\ IF default_branch # Blank /\ NotTried(default_branch)
         THEN \E r \in ContentsAnswers(up, default_branch) :
                 Fetch(default_branch, r, "gf_loop")
         ELSE /\ pc' = "gf_loop"
              /\ UNCHANGED <<tried, calls, content, resp>>
    /\ idx' = 1
    /\ UNCHANGED <<session, req, up, default_branch>>
    /\ UNCHANGED others

LiteralsBug == <<"master", "main">>

\* Line 349: for b in ("main", "master")
Literals == <<"main", "master">>

\* Lines 349-356: one iteration of the loop over the two literal names.
gf_loop ==
    /\ pc = "gf_loop"
    /\ idx \in 1..Len(Literals)
    /\ LET b == Literals[idx]
           next == IF idx < Len(Literals) THEN "gf_loop" ELSE "gf_raw"
       IN /\ IF content = None /\ NotTried(b)
               THEN \E r \in ContentsAnswers(up, b) : Fetch(b, r, next)
               ELSE /\ pc' = next
                    /\ UNCHANGED <<tried, calls, content, resp>>
          /\ idx' = IF idx < Len(Literals) THEN idx + 1 ELSE 1
    /\ UNCHANGED <<session, req, up, default_branch>>
    /\ UNCHANGED others

RawListBug == <<"main">>

\* Line 359: for b in tried or ["main"]
RawList == IF tried = <<>> THEN <<"main">> ELSE tried

\* Lines 357-367: one iteration of the raw-content fallback.
gf_raw ==
    /\ pc = "gf_raw"
    /\ IF content = None /\ idx <= Len(RawList)
         THEN \E rr \in RawAnswers(up, RawList[idx]) :
                /\ calls' = Append(calls, Call("GET", "raw", RawList[idx], rr))
                /\ IF rr.status = 200
                     THEN /\ content' = rr.text
                          /\ pc' = "gf_return"
                          /\ UNCHANGED idx
                     ELSE /\ idx' = idx + 1
                          /\ UNCHANGED <<content, pc>>
         ELSE /\ pc' = "gf_return"
              /\ UNCHANGED <<calls, content, idx>>
    /\ UNCHANGED <<session, req, up, tried, default_branch, resp>>
    /\ UNCHANGED others

gf_returnBug ==
    /\ pc = "gf_return"
    /\ IF content = None
         THEN Return(Json(404, FALSE, "File not found on branches tried"))
         ELSE Return([Json(200, TRUE, Blank) EXCEPT !.content = content])
    /\ UNCHANGED <<session, req, up, tried, content, default_branch, idx, calls>>
    /\ UNCHANGED others

\* Lines 368-370: the response.
gf_return ==
    /\ pc = "gf_return"
    /\ IF content = None
         THEN Return([Json(404, FALSE, "File not found on branches tried")
                        EXCEPT !.tried = tried])
         ELSE Return([Json(200, TRUE, Blank) EXCEPT !.content = content])
    /\ UNCHANGED <<session, req, up, tried, content, default_branch, idx, calls>>
    /\ UNCHANGED others

\* ----------------------------------------------------------- upload_file
\* A handler answers before its body: nothing of the request is set up.
Reject(r) ==
    /\ Return(r)
    /\ calls' = <<>>
    /\ up' = NoUpstream
    /\ store' = NoStore
    /\ upload_list' = <<>>
    /\ results' = <<>>
    /\ sha' = NoSha
    /\ idx' = 0
    /\ caller' = Blank

\* The path upload_file is working on.
CurrentPath ==
    CASE caller \in {"bulk_upload", "api_upload_files"} -> upload_list[idx]
      [] caller = "api_create_repo" -> EnsurePaths[idx]
      [] OTHER -> EnsurePaths[3]

uf_lookupBug ==
    /\ pc = "uf_lookup"
    /\ \E r \in (LookupAnswers(up, store, CurrentPath) \ {Raised})
                    \cup MayRaise(calls) :
         /\ calls' = Append(calls, [Call("GET", "contents", CurrentPath, r)
                                      EXCEPT !.sha = r.sha])
         /\ sha' = NoSha
    /\ pc' = "uf_put"
    /\ UNCHANGED <<session, req, up, store, tried, content, default_branch, idx,
                   upload_list, results, caller, resp>>

\* Lines 134-141 of github_api.py: the lookup that supplies the sha.  The
\* log keeps the sha the lookup's answer carried.
uf_lookup ==
    /\ pc = "uf_lookup"
    /\ \E r \in (LookupAnswers(up, store, CurrentPath) \ {Raised})
                    \cup MayRaise(calls) :
         /\ calls' = Append(calls, [Call("GET", "contents", CurrentPath, r)
                                      EXCEPT !.sha = r.sha])
         /\ sha' = IF r.status = 200 THEN r.sha ELSE NoSha
    /\ pc' = "uf_put"
    /\ UNCHANGED <<session, req, up, store, tried, content, default_branch, idx,
                   upload_list, results, caller, resp>>

NextItemBug ==
    /\ idx' = idx + 1
    /\ pc' = "up_return"
    /\ UNCHANGED <<caller, resp>>

\* The loop of bulk_upload / of api_upload_files moves to the next item.
NextItem ==
    /\ idx' = idx + 1
    /\ pc' = IF idx < Len(upload_list) THEN "uf_lookup" ELSE "up_return"
    /\ UNCHANGED <<caller, resp>>

\* upload_file returned v to its caller.
UploadReturned(v) ==
    CASE caller \in {"bulk_upload", "api_upload_files"} ->
           /\ results' = Append(results, v)
           /\ NextItem
      [] caller = "api_create_repo" ->
           /\ idx' = idx + 1
           /\ pc' = "cr_exists"
           /\ UNCHANGED <<results, caller, resp>>
      [] OTHER ->
           /\ Return([Json(200, TRUE, Blank) EXCEPT !.content = v])
           /\ UNCHANGED <<results, caller, idx>>

\* The PUT of upload_file raised, which upload_file does not catch.
UploadRaised ==
    CASE caller = "bulk_upload" ->
           \* app.py 256-261: results = None, then the loop over upload_list
           /\ results' = <<>>
           /\ idx' = 1
           /\ caller' = "api_upload_files"
           /\ pc' = "uf_lookup"
           /\ UNCHANGED resp
      [] caller = "api_upload_files" ->
           \* app.py 265-267
           /\ results' = Append(results, ErrorDict("exception"))
           /\ NextItem
      [] caller = "api_create_repo" ->
           \* app.py 187-189
           /\ Return(Json(200, TRUE, Blank))
           /\ UNCHANGED <<results, caller, idx>>
      [] OTHER ->
           /\ Return500
           /\ UNCHANGED <<results, caller, idx>>

\* Lines 143-156 of github_api.py: the PUT, with the sha when there is one.
uf_put ==
    /\ pc = "uf_put"
    /\ \E r \in (PutAnswers(up, store, CurrentPath, sha) \ {Raised})
                    \cup MayRaise(calls) :
         /\ calls' = Append(calls, [Call("PUT", "contents", CurrentPath, r)
                                      EXCEPT !.sha = sha])
         /\ store' = IF r.status \in {200, 201}
                       THEN [store EXCEPT ![CurrentPath] = r.sha] ELSE store
         /\ IF r = Raised THEN UploadRaised
                          ELSE UploadReturned(upload_file(r, CurrentPath))
    /\ sha' = NoSha
    /\ UNCHANGED <<session, req, up, tried, content, default_branch, upload_list>>

\* ------------------------------------------------------ api_upload_files
\* Lines 216-255: the session, the arguments, the upload list, bulk_upload.
api_upload_files ==
    /\ pc = "idle"
    /\ \E repo \in {Blank, Spaces, "x"}, files \in UploadLists :
         /\ req' = [NoReq EXCEPT !.endpoint = "api_upload_files",
                                 !.owner = session.username,
                                 !.repo = strip(repo)]
         /\ IF session.pat = Blank
              THEN Reject(Json(401, FALSE, "Unauthorized"))
            ELSE IF strip(repo) = Blank
              THEN Reject(Json(400, FALSE, "repo required"))
            ELSE IF get_gh = "None"
              THEN Reject(Json(500, FALSE, "GitHub client unavailable"))
            ELSE IF files = <<>>
              THEN Reject(Json(400, FALSE, "No files uploaded"))
            ELSE /\ up' \in {u \in ServiceUpstreams :
                              u.default = "main" \/ u.mode = "rejected"}
                 /\ store' \in IF up'.mode = "ok" THEN StoresOver(Paths)
                                                  ELSE {NoStore}
                 /\ upload_list' = files
                 /\ results' = <<>>
                 /\ sha' = NoSha
                 /\ idx' = 1
                 /\ caller' = "bulk_upload"
                 /\ calls' = <<>>
                 /\ pc' = "uf_lookup"
                 /\ resp' = NoResp
    /\ UNCHANGED <<session, tried, content, default_branch>>

\* Line 268: the per-file results, under success = True.
up_return ==
    /\ pc = "up_return"
    /\ Return([Json(200, TRUE, Blank) EXCEPT !.files = results])
    /\ UNCHANGED <<session, req, up, store, tried, content, default_branch, idx,
                   upload_list, results, sha, caller, calls>>

\* ------------------------------------------------------- api_create_repo
repo_existsBug(info) == FALSE

\* Line 173: `info and not info.get("message")`
repo_exists(info) == info.message = Blank

\* create_repo, lines 60-62: the JSON, {"error": ..}, or r.json() raising.
create_repo(r) ==
    IF r.status \in {200, 201} THEN Uploaded("repo")
    ELSE IF r.json THEN ErrorDict(r.message)
    ELSE None

\* Lines 153-166: the session, the name, the client.
api_create_repo ==
    /\ pc = "idle"
    /\ \E name \in {Blank, Spaces, "x"} :
         /\ req' = [NoReq EXCEPT !.endpoint = "api_create_repo",
                                 !.owner = session.username,
                                 !.repo = strip(name)]
         /\ IF session.pat = Blank
              THEN Reject(Json(401, FALSE, "Unauthorized"))
            ELSE IF strip(name) = Blank
              THEN Reject(Json(400, FALSE, "name required"))
            ELSE IF get_gh = "None"
              THEN Reject(Json(500, FALSE, "GitHub client unavailable"))
            ELSE /\ up' \in ServiceUpstreams
                 /\ store' = NoStore
                 /\ upload_list' = <<>>
                 /\ results' = <<>>
                 /\ sha' = NoSha
                 /\ idx' = 0
                 /\ caller' = "api_create_repo"
                 /\ calls' = <<>>
                 /\ pc' = "cr_info"
                 /\ resp' = NoResp
    /\ UNCHANGED <<session, tried, content, default_branch>>

\* Lines 169-174: does the repository exist already?
cr_info ==
    /\ pc = "cr_info"
    /\ \E r \in RepoAnswers(up) :
         /\ calls' = Append(calls, Call("GET", "repo", req.repo, r))
         /\ IF r # Raised /\ repo_exists(get_repo_info(r))
              THEN Return(Json(200, FALSE, "Repository already exists."))
              ELSE /\ pc' = "cr_create"
                   /\ UNCHANGED resp
    /\ UNCHANGED <<session, req, up, store, tried, content, default_branch, idx,
                   upload_list, results, sha, caller>>

\* Lines 175-178: the creation request.  The new repository holds what
\* GitHub's auto_init has put there when the handler looks.
cr_create ==
    /\ pc = "cr_create"
    /\ \E r \in CreateAnswers(up) :
         /\ calls' = Append(calls, Call("POST", "user/repos", req.repo, r))
         /\ IF r = Raised \/ create_repo(r) = None
              THEN /\ Return500
                   /\ UNCHANGED <<up, store, idx>>
            ELSE IF IsErrorDict(create_repo(r))
              THEN /\ Return(Json(400, FALSE, create_repo(r).error))
                   /\ UNCHANGED <<up, store, idx>>
            ELSE /\ up' = [up EXCEPT !.default = "main"]
                 /\ store' \in StoresOver({EnsurePaths[1]})
                 /\ idx' = 1
                 /\ pc' = "cr_exists"
                 /\ UNCHANGED resp
    /\ UNCHANGED <<session, req, tried, content, default_branch, upload_list,
                   results, sha, caller>>

\* Lines 179-189: README, LICENSE and the workflow, each added when
\* file_exists says it is missing; any exception ends the additions.
cr_exists ==
    /\ pc = "cr_exists"
    /\ IF idx > Len(EnsurePaths)
         THEN /\ Return(Json(200, TRUE, Blank))
              /\ UNCHANGED <<calls, idx>>
         ELSE \E r \in LookupAnswers(up, store, EnsurePaths[idx]) :
                /\ calls' = Append(calls, Call("GET", "contents", EnsurePaths[idx], r))
                /\ IF r = Raised
                     THEN /\ Return(Json(200, TRUE, Blank))
                          /\ UNCHANGED idx
                   ELSE IF r.status = 200
                     THEN /\ idx' = idx + 1
                          /\ UNCHANGED <<pc, resp>>
                   ELSE /\ pc' = "uf_lookup"
                        /\ UNCHANGED <<idx, resp>>
    /\ UNCHANGED <<session, req, up, store, tried, content, default_branch,
                   upload_list, results, sha, caller>>

\* ---------------------------------------------------------- api_add_cicd
\* Lines 480-489: the session, the repository name, the client.
api_add_cicd ==
    /\ pc = "idle"
    /\ \E repo \in {Blank, Spaces, "x"} :
         /\ req' = [NoReq EXCEPT !.endpoint = "api_add_cicd",
                                 !.owner = session.username,
                                 !.repo = strip(repo)]
         /\ IF session.pat = Blank
              THEN Reject(Json(401, FALSE, "Unauthorized"))
            ELSE IF strip(repo) = Blank
              THEN Reject(Json(400, FALSE, "repo required"))
            ELSE IF get_gh = "None"
              THEN Reject(Json(500, FALSE, "GitHub client unavailable"))
            ELSE /\ up' \in {u \in ServiceUpstreams : u.default = "main" \/ u.mode # "ok"}
                 /\ store' \in StoresOver({EnsurePaths[3]})
                 /\ upload_list' = <<>>
                 /\ results' = <<>>
                 /\ sha' = NoSha
                 /\ idx' = 0
                 /\ caller' = "api_add_cicd"
                 /\ calls' = <<>>
                 /\ pc' = "ci_exists"
                 /\ resp' = NoResp
    /\ UNCHANGED <<session, tried, content, default_branch>>

\* Lines 490-498: the workflow is added unless file_exists finds it.
ci_exists ==
    /\ pc = "ci_exists"
    /\ \E r \in LookupAnswers(up, store, EnsurePaths[3]) :
         /\ calls' = Append(calls, Call("GET", "contents", EnsurePaths[3], r))
         /\ IF r = Raised THEN Return500
            ELSE IF r.status = 200 THEN Return(Json(200, TRUE, Blank))
            ELSE /\ pc' = "uf_lookup"
                 /\ UNCHANGED resp
    /\ UNCHANGED <<session, req, up, store, tried, content, default_branch, idx,
                   upload_list, results, sha, caller>>

\* ------------------------------------------------- the other endpoints
\* A handler enters its body: the upstream and the store of this request.
Enter(next, u, st) ==
    /\ up' = u
    /\ store' = st
    /\ upload_list' = <<>>
    /\ results' = <<>>
    /\ sha' = NoSha
    /\ idx' = 1
    /\ caller' = Blank
    /\ calls' = <<>>
    /\ pc' = next
    /\ resp' = NoResp

\* A handler answers after the outbound calls of `log`.
Reply(r, log, u) ==
    /\ Return(r)
    /\ calls' = log
    /\ up' = u
    /\ store' = NoStore
    /\ upload_list' = <<>>
    /\ results' = <<>>
    /\ sha' = NoSha
    /\ idx' = 0
    /\ caller' = Blank

\* Lines 123-129: /api/repos.
api_repos ==
    /\ pc = "idle"
    /\ req' = [NoReq EXCEPT !.endpoint = "api_repos"]
    /\ IF session.pat = Blank
         THEN Reject(Json(401, FALSE, "Unauthorized"))
       ELSE IF get_gh = "None"
         THEN Reject(Json(500, FALSE, "GitHub client unavailable"))
       ELSE \E u \in ServiceUpstreams : Enter("ar_page", u, NoStore)
    /\ UNCHANGED <<session, tried, content, default_branch>>

\* get_repos, lines 36-50, and lines 130-149: one page of the listing.
ar_page ==
    /\ pc = "ar_page"
    /\ \E r \in ReposAnswers(up, idx) :
         /\ calls' = Append(calls, Call("GET", "user/repos", Blank, r))
         /\ IF r = Raised
              THEN /\ Return500
                   /\ UNCHANGED <<results, idx>>
            ELSE IF r.status # 200 \/ r.text.ref = "empty"
              THEN /\ Return([Json(200, TRUE, Blank) EXCEPT !.files = results])
                   /\ UNCHANGED <<results, idx>>
            ELSE IF r.text.ref = "short"
              THEN /\ Return([Json(200, TRUE, Blank)
                                EXCEPT !.files = Append(results, r.text)])
                   /\ results' = Append(results, r.text)
                   /\ UNCHANGED idx
            ELSE /\ results' = Append(results, r.text)
                 /\ idx' = idx + 1
                 /\ UNCHANGED <<pc, resp>>
    /\ UNCHANGED <<session, req, up, store, tried, content, default_branch,
                   upload_list, sha, caller>>

\* delete_repo, lines 64-71: ok, or {"error": ..}.
delete_repo(r) ==
    IF r.status = 204 THEN Uploaded("ok") ELSE ErrorDict(BodyText(r))

\* Lines 195-213: /api/delete_repo.
api_delete_repo ==
    /\ pc = "idle"
    /\ \E repo \in {Blank, Spaces, "x"} :
         /\ req' = [NoReq EXCEPT !.endpoint = "api_delete_repo",
                                 !.owner = session.username,
                                 !.repo = strip(repo)]
         /\ IF session.pat = Blank
              THEN Reject(Json(401, FALSE, "Unauthorized"))
            ELSE IF strip(repo) = Blank
              THEN Reject(Json(400, FALSE, "repo required"))
            ELSE IF get_gh = "None"
              THEN Reject(Json(500, FALSE, "GitHub client unavailable"))
            ELSE \E u \in ServiceUpstreams : \E r \in DeleteRepoAnswers(u) :
                   LET log == <<Call("DELETE", "repo", strip(repo), r)>>
                       after == IF r.status = 204
                                  THEN [u EXCEPT !.default = Blank] ELSE u
                   IN IF r = Raised
                        THEN Reply(Json(500, FALSE, "exception"), log, after)
                      ELSE IF IsErrorDict(delete_repo(r))
                        THEN Reply(Json(400, FALSE, delete_repo(r).error), log, after)
                      ELSE Reply(Json(200, TRUE, Blank), log, after)
    /\ UNCHANGED <<session, tried, content, default_branch>>

\* list_repo_files, lines 74-99: the outbound calls and the value returned
\* ("None" when the handler's `except` at line 286 takes over).
list_repo_files(u, r1, r2, r3) ==
    LET b == IF get_repo_info(r1).default_branch # Blank
               THEN get_repo_info(r1).default_branch ELSE "main"
        c1 == Call("GET", "repo", Blank, r1)
        c2 == Call("GET", "git/trees", b, r2)
        c3 == Call("GET", "contents", Blank, r3)
    IN IF r1 = Raised THEN [log |-> <<c1>>, files |-> "None"]
       ELSE IF r2.status = 200 THEN [log |-> <<c1, c2>>, files |-> "tree"]
       ELSE IF r3.status = 200 THEN [log |-> <<c1, c2, c3>>, files |-> "list"]
       ELSE [log |-> <<c1, c2, c3>>, files |-> "empty"]

\* Lines 274-315: /api/list_files.
api_list_files ==
    /\ pc = "idle"
    /\ \E owner \in {Blank, "bob"}, repo \in {Blank, Spaces, "x"} :
         LET o == IF owner # Blank THEN owner ELSE session.username
         IN /\ req' = [NoReq EXCEPT !.endpoint = "api_list_files", !.owner = o,
                                    !.repo = strip(repo)]
            /\ IF o = Blank \/ strip(repo) = Blank
                 THEN Reject(Json(400, FALSE, "owner and repo required"))
               ELSE IF session.pat = Blank \/ get_gh = "None"
                 THEN Reject([Json(200, TRUE, Blank)
                                EXCEPT !.content = Text("files", "None")])
               ELSE \E u \in ServiceUpstreams : \E r1 \in RepoAnswers(u) :
                      \E r2 \in TreeAnswers(u, IF get_repo_info(r1).default_branch # Blank
                                                 THEN get_repo_info(r1).default_branch
                                                 ELSE "main"),
                         r3 \in RootAnswers(u) :
                        LET got == list_repo_files(u, r1, r2, r3)
                        IN Reply([Json(200, TRUE, Blank)
                                    EXCEPT !.content = Text("files", got.files)],
                                 got.log, u)
    /\ UNCHANGED <<session, tried, content, default_branch>>

\* Lines 376-387: /api/delete_file.
api_delete_file ==
    /\ pc = "idle"
    /\ \E repo \in {Blank, Spaces, "x"}, path \in {Blank, Spaces} \cup Paths :
         /\ req' = [NoReq EXCEPT !.endpoint = "api_delete_file",
                                 !.owner = session.username,
                                 !.repo = strip(repo), !.path = strip(path)]
         /\ IF session.pat = Blank
              THEN Reject(Json(401, FALSE, "Unauthorized"))
            ELSE IF strip(repo) = Blank \/ strip(path) = Blank
              THEN Reject(Json(400, FALSE, "repo and path required"))
            ELSE IF get_gh = "None"
              THEN Reject(Json(500, FALSE, "GitHub client unavailable"))
            ELSE \E u \in {v \in ServiceUpstreams : v.default = "main" \/ v.mode # "ok"},
                    st \in StoresOver({strip(path)}) :
                   Enter("df_lookup", u, st)
    /\ UNCHANGED <<session, tried, content, default_branch>>

df_lookupBug ==
    /\ pc = "df_lookup"
    /\ \E r \in LookupAnswers(up, store, req.path) :
         /\ calls' = Append(calls, [Call("GET", "contents", req.path, r)
                                      EXCEPT !.sha = r.sha])
         /\ sha' = r.sha
         /\ pc' = "df_delete"
         /\ UNCHANGED resp
    /\ UNCHANGED <<session, req, up, store, tried, content, default_branch, idx,
                   upload_list, results, caller>>

\* delete_file, lines 160-163: the lookup that supplies the sha.
df_lookup ==
    /\ pc = "df_lookup"
    /\ \E r \in LookupAnswers(up, store, req.path) :
         /\ calls' = Append(calls, [Call("GET", "contents", req.path, r)
                                      EXCEPT !.sha = r.sha])
         /\ IF r = Raised
              THEN /\ Return500
                   /\ UNCHANGED sha
            ELSE IF r.status # 200
              THEN /\ Return(Json(400, FALSE, "File not found"))
                   /\ UNCHANGED sha
            ELSE /\ sha' = r.sha
                 /\ pc' = "df_delete"
                 /\ UNCHANGED resp
    /\ UNCHANGED <<session, req, up, store, tried, content, default_branch, idx,
                   upload_list, results, caller>>

\* delete_file, lines 164-175, and app.py 391-393: the DELETE with the sha.
df_delete ==
    /\ pc = "df_delete"
    /\ \E r \in DeleteAnswers(up, store, req.path, sha) :
         /\ calls' = Append(calls, [Call("DELETE", "contents", req.path, r)
                                      EXCEPT !.sha = sha])
         /\ store' = IF r.status \in {200, 204}
                       THEN [store EXCEPT ![req.path] = NoSha] ELSE store
         /\ IF r = Raised THEN Return500
            ELSE IF r.status \in {200, 204} THEN Return(Json(200, TRUE, Blank))
            ELSE Return(Json(400, FALSE, BodyText(r)))
    /\ UNCHANGED <<session, req, up, tried, content, default_branch, idx,
                   upload_list, results, sha, caller>>

\* Line 22
PISTON_ENDPOINTS == <<"https://emkc.org/api/v2/piston/execute",
                      "https://piston.rs/execute">>

\* detect_language_from_filename, lines 48-58, on the file names used here.
detect_language_from_filename(path) ==
    CASE path = "a.py" -> "python"
      [] path = "a.html" -> "html"
      [] path = "a.jsx" -> "jsx"
      [] OTHER -> Blank

RunPaths == {"a.py", "a.html", "a.jsx", "a.xyz"}

\* Lines 399-411: /api/run.  The arguments are not stripped.
api_run ==
    /\ pc = "idle"
    /\ \E owner \in {Blank, "bob"}, repo \in {Blank, Spaces, "x"},
          path \in {Blank, Spaces} \cup RunPaths, language \in {Blank, "python"} :
         LET o == IF owner # Blank THEN owner ELSE session.username
         IN /\ req' = [NoReq EXCEPT !.endpoint = "api_run", !.owner = o,
                                    !.repo = repo, !.path = path,
                                    !.language = language]
            /\ IF o = Blank \/ repo = Blank \/ path = Blank
                 THEN Reject(Json(400, FALSE, "owner, repo, path required"))
               ELSE IF get_gh = "None"
                 THEN Reject(Json(500, FALSE, "GitHub client unavailable"))
               ELSE \E u \in {v \in ServiceUpstreams : v.mode = "ok" => v.default = "main"},
                       on \in (IF strip(repo) = Blank \/ strip(path) = Blank
                                 THEN {{}} ELSE SUBSET {"main"}) :
                      Enter("run_fetch", [u EXCEPT !.fileOn = IF u.mode = "ok" THEN on ELSE {}],
                            NoStore)
    /\ UNCHANGED <<session, tried, content, default_branch>>

\* Lines 412-431: the file, the preview cases, the language.
run_fetch ==
    /\ pc = "run_fetch"
    /\ \E r \in ContentsAnswers(up, up.default) :
         /\ calls' = Append(calls, Call("GET", "contents", Blank, r))
         /\ LET file_text == get_file_text(r)
                language == IF req.language # Blank THEN req.language
                            ELSE detect_language_from_filename(req.path)
            IN IF r = Raised THEN Return500
               ELSE IF IsErrorDict(file_text)
                 THEN Return(Json(400, FALSE, file_text.error))
               ELSE IF file_text = None
                 THEN Return(Json(404, FALSE, "Could not fetch file content"))
               ELSE IF req.path = "a.html"
                 THEN Return([Json(200, TRUE, Blank) EXCEPT !.content = file_text])
               ELSE IF req.path = "a.jsx"
                 THEN Return(Json(400, FALSE, "React/JSX requires build step"))
               ELSE IF language = Blank
                 THEN Return(Json(400, FALSE, "Could not detect language"))
               ELSE /\ pc' = "run_piston"
                    /\ UNCHANGED resp
    /\ UNCHANGED <<session, req, up, store, tried, content, default_branch, idx,
                   upload_list, results, sha, caller>>

\* Lines 426-431: the payload, built once before the loop.
piston_payload ==
    [language |-> IF req.language # Blank THEN req.language
                  ELSE detect_language_from_filename(req.path),
     file |-> req.path]

ExecutedBug(r) == FALSE

\* Lines 435-446: the answer is 200 and r.json() gives the run; a body that
\* does not parse raises inside the `try` and the loop continues.
Executed(r) == r.status = 200 /\ r.json

\* Lines 432-450: the execution endpoints, in list order.
run_piston ==
    /\ pc = "run_piston"
    /\ IF idx > Len(PISTON_ENDPOINTS)
         THEN /\ Return(Json(502, FALSE, "Execution service failed"))
              /\ UNCHANGED <<calls, idx>>
         ELSE \E r \in PistonAnswers(PISTON_ENDPOINTS[idx]) :
                /\ calls' = Append(calls, [Call("POST", "piston", PISTON_ENDPOINTS[idx], r)
                                             EXCEPT !.payload = piston_payload])
                /\ IF Executed(r)
                     THEN /\ Return([Json(200, TRUE, Blank) EXCEPT !.content = r.text])
                          /\ UNCHANGED idx
                     ELSE /\ idx' = idx + 1
                          /\ UNCHANGED <<pc, resp>>
    /\ UNCHANGED <<session, req, up, store, tried, content, default_branch,
                   upload_list, results, sha, caller>>

\* Lines 456-459: /api/download/<owner>/<repo>.  Without a client the
\* handler goes straight to the archive URLs.
api_download ==
    /\ pc = "idle"
    /\ \E branch \in {Blank} \cup Branches :
         /\ req' = [NoReq EXCEPT !.endpoint = "api_download", !.owner = "bob",
                                 !.repo = "x",
                                 !.branch = IF branch = Blank THEN "main" ELSE branch]
         /\ \E u \in Upstreams :
              Enter(IF get_gh = "None" THEN "dl_head" ELSE "dl_zip", u, NoStore)
    /\ UNCHANGED <<session, tried, content, default_branch>>

\* Lines 461-464 and download_repo_zip, lines 233-239.
dl_zip ==
    /\ pc = "dl_zip"
    /\ \E r \in ZipAnswers(up, req.branch) :
         /\ calls' = Append(calls, Call("GET", "zipball", req.branch, r))
         /\ IF r = Raised THEN Return500
            ELSE IF r.status = 200
              THEN Return([Json(200, TRUE, Blank) EXCEPT !.content = r.text])
            ELSE /\ pc' = "dl_head"
                 /\ UNCHANGED resp
    /\ UNCHANGED <<session, req, up, store, tried, content, default_branch, idx,
                   upload_list, results, sha, caller>>

\* Line 465: for b in (branch, "main", "master")
ArchiveBranches == <<req.branch, "main", "master">>

\* Lines 465-473: the first archive URL that answers 200 is the redirect.
dl_head ==
    /\ pc = "dl_head"
    /\ IF idx > Len(ArchiveBranches)
         THEN /\ Return(Json(404, FALSE, "Could not find branch zip"))
              /\ UNCHANGED <<calls, idx>>
         ELSE \E r \in HeadAnswers(up, ArchiveBranches[idx]) :
                /\ calls' = Append(calls, Call("HEAD", "archive", ArchiveBranches[idx], r))
                /\ IF r.status = 200
                     THEN /\ Return([Json(302, FALSE, "redirect")
                                       EXCEPT !.content = Text("archive", ArchiveBranches[idx])])
                          /\ UNCHANGED idx
                     ELSE /\ idx' = idx + 1
                          /\ UNCHANGED <<pc, resp>>
    /\ UNCHANGED <<session, req, up, store, tried, content, default_branch,
                   upload_list, results, sha, caller>>

\* Lines 515-519: /api/whoami.
api_whoami ==
    /\ pc = "idle"
    /\ req' = [NoReq EXCEPT !.endpoint = "api_whoami"]
    /\ IF session.pat = Blank
         THEN Reject(Json(401, FALSE, "Not authenticated"))
         ELSE Reject([Json(200, TRUE, Blank)
                        EXCEPT !.content = Text("username", session.username)])
    /\ UNCHANGED <<session, tried, content, default_branch>>

\* Lines 501-513: /api/settings.
api_settings ==
    /\ pc = "idle"
    /\ req' = [NoReq EXCEPT !.endpoint = "api_settings"]
    /\ \E method \in {"GET", "POST"}, action \in {Blank, "logout"} :
         IF method = "GET"
           THEN /\ Reject([Json(200, TRUE, Blank)
                              EXCEPT !.content = Text("username", session.username)])
                /\ UNCHANGED session
         ELSE IF action = "logout"
           THEN /\ Reject([Json(200, TRUE, Blank)
                              EXCEPT !.content = Text("message", "Logged out")])
                /\ session' = NoSession
         ELSE /\ Reject(Json(400, FALSE, "Unknown action"))
              /\ UNCHANGED session
    /\ UNCHANGED <<tried, content, default_branch>>

\* ---------------------------------------------------------------- login
\* POST /login: the token is kept only when the user lookup answers a user.
login ==
    /\ pc = "idle"
    /\ \E pat \in {Blank, Spaces} \cup Tokens, mode \in Modes, raised \in BOOLEAN :
         /\ IF strip(pat) = Blank
              THEN /\ calls' = <<>>
                   /\ Return(Json(200, FALSE, "Enter your GitHub PAT"))
                   /\ UNCHANGED session
              ELSE /\ calls' = <<Call("GET", "user", Blank,
                                       IF raised THEN Raised
                                       ELSE Refusal([mode |-> mode],
                                                    Http(200, TRUE, Blank, None)))>>
                   /\ IF raised
                        THEN /\ Return(Json(200, FALSE, "Unexpected error authenticating token"))
                             /\ UNCHANGED session
                      ELSE IF mode # "ok"
                        THEN /\ Return(Json(200, FALSE, "Invalid PAT or missing repo scopes"))
                             /\ UNCHANGED session
                      ELSE /\ Return(Json(302, FALSE, "dashboard"))
                           /\ session' = [pat |-> strip(pat),
                                           username |-> UserOf(strip(pat))]
    /\ UNCHANGED <<req, up, tried, content, default_branch, idx>>
    /\ UNCHANGED others

\* /logout: session.clear()
logout ==
    /\ pc = "idle"
    /\ session' = NoSession
    /\ calls' = <<>>
    /\ Return(Json(302, FALSE, "index"))
    /\ UNCHANGED <<req, up, tried, content, default_branch, idx>>
    /\ UNCHANGED others

\* A request leaves nothing behind but the session: the handler's locals and
\* the response belong to the request.
finish ==
    /\ pc = "done"
    /\ pc' = "idle"
    /\ req' = NoReq
    /\ up' = NoUpstream
    /\ tried' = <<>>
    /\ content' = None
    /\ default_branch' = Blank
    /\ idx' = 0
    /\ calls' = <<>>
    /\ resp' = NoResp
    /\ store' = NoStore
    /\ upload_list' = <<>>
    /\ results' = <<>>
    /\ sha' = NoSha
    /\ caller' = Blank
    /\ UNCHANGED session

Next ==
    \/ login
    \/ logout
    \/ api_get_file
    \/ gf_hint
    \/ gf_info
    \/ gf_default
    \/ gf_loop
    \/ gf_raw
    \/ gf_return
    \/ api_upload_files
    \/ uf_lookup
    \/ uf_put
    \/ up_return
    \/ api_create_repo
    \/ cr_info
    \/ cr_create
    \/ cr_exists
    \/ api_add_cicd
    \/ ci_exists
    \/ api_repos
    \/ ar_page
    \/ api_delete_repo
    \/ api_list_files
    \/ api_delete_file
    \/ df_lookup
    \/ df_delete
    \/ api_run
    \/ run_fetch
    \/ run_piston
    \/ api_download
    \/ dl_zip
    \/ dl_head
    \/ api_whoami
    \/ api_settings
    \/ finish

Spec == Init /\ [][Next]_vars

\* ======================================================================
\* Properties of the branch-fallback resolution (api_get_file)
\* ======================================================================
RefsOf(api) ==
    LET sel == SelectSeq(calls, LAMBDA c : c.api = api)
    IN [i \in 1..Len(sel) |-> sel[i].arg]

StatusesOf(api) ==
    LET sel == SelectSeq(calls, LAMBDA c : c.api = api)
    IN [i \in 1..Len(sel) |-> sel[i].status]

IsPrefix(a, b) == Len(a) <= Len(b) /\ \A i \in 1..Len(a) : a[i] = b[i]

NoDuplicates(s) == \A i, j \in 1..Len(s) : s[i] = s[j] => i = j

Count(x, s) == Cardinality({i \in 1..Len(s) : s[i] = x})

\* The names in s in order of first occurrence, the empty name left out.
Dedup(s) ==
    LET F[i \in 0..Len(s)] ==
          IF i = 0 THEN <<>>
          ELSE IF s[i] = Blank \/ InSeq(s[i], F[i - 1]) THEN F[i - 1]
          ELSE Append(F[i - 1], s[i])
    IN F[Len(s)]

\* The candidates of the documented chain for this request and upstream:
\* hint, default branch, "main", "master", each name once.
Chain == Dedup(<<req.branch, up.default, "main", "master">>)

\* A resolution is running or has just answered (the body was entered).
Resolving ==
    /\ req.endpoint = "api_get_file"
    /\ pc # "idle"
    /\ ~(pc = "done" /\ calls = <<>>)

Answered == Resolving /\ pc = "done"

\* A structured fetch or the metadata query raised: the handler's
\* `except Exception` answers 500.
Aborted ==
    \E i \in 1..Len(calls) :
        calls[i].api \in {"contents", "repo"} /\ calls[i].status = 0

\* C1: structured fetches go hint, default branch, "main", "master" (each
\* name once); the first one that yields content is the last call of the
\* resolution and its content is the successful response.  With no hint,
\* default "main" and the file only on "master" the attempts are main then
\* master and the result is success; with the file on "main" there is one
\* attempt.
C1_FetchOrder ==
    Resolving =>
      LET S == RefsOf("contents")
          st == StatusesOf("contents")
      IN /\ IsPrefix(S, Chain)
         /\ \A i \in 1..Len(calls) :
               (calls[i].api = "contents" /\ calls[i].status = 200)
                 => /\ i = Len(calls)
                    /\ content = Text("api", calls[i].arg)
                    /\ (pc = "done" =>
                          (resp.success /\ resp.status = 200
                           /\ resp.content = Text("api", calls[i].arg)))
         /\ (Answered /\ ~Aborted /\ req.branch = Blank /\ up.mode = "ok"
             /\ up.default = "main")
              => /\ ("main" \in up.fileOn
                       => (S = <<"main">> /\ resp.success
                           /\ Len(calls) = 2))
                 /\ (("main" \notin up.fileOn /\ "master" \in up.fileOn)
                       => (S = <<"main", "master">> /\ resp.success
                           /\ resp.content = Text("api", "master")))

C1_Witness ==
    /\ Answered
    /\ req.branch = Blank
    /\ up.default = "main"
    /\ up.fileOn = {"master"}
    /\ RefsOf("contents") = <<"main", "master">>
    /\ resp.success

\* C2: one resolution never fetches a branch name twice with the same
\* method: `tried` has no duplicate, each name has at most one structured
\* and at most one raw fetch, and a hint equal to the default branch is
\* fetched exactly once.
C2_NoRepeatedFetch ==
    Resolving =>
      /\ NoDuplicates(tried)
      /\ NoDuplicates(RefsOf("contents"))
      /\ NoDuplicates(RefsOf("raw"))
      /\ (pc # "gf_hint" /\ req.branch # Blank /\ req.branch = up.default)
           => Count(req.branch, RefsOf("contents")) = 1

C2_Witness ==
    /\ Answered
    /\ req.branch # Blank
    /\ req.branch = up.default
    /\ resp.status = 404
    /\ Len(RefsOf("raw")) = Len(tried)

\* C3: raw fetches are issued only once every structured attempt has
\* failed, for the attempted names in the order of the structured attempts,
\* up to the first 200, whose text is then the successful response.
C3_RawFallback ==
    (Resolving /\ RefsOf("raw") # <<>>) =>
      LET R == RefsOf("raw")
          rs == StatusesOf("raw")
          S == RefsOf("contents")
      IN /\ \A i \in 1..Len(calls) :
               calls[i].api = "contents" =>
                 /\ calls[i].status # 200
                 /\ \A j \in 1..i : calls[j].api # "raw"
         /\ S = tried
         /\ \A b \in {"main", "master"} : InSeq(b, S)
         /\ IsPrefix(R, S)
         /\ \A i \in 1..(Len(R) - 1) : rs[i] # 200
         /\ (rs[Len(R)] = 200 /\ pc \in {"gf_return", "done"})
              => content = Text("raw", R[Len(R)])
         /\ (rs[Len(R)] = 200 /\ pc = "done")
              => (resp.success /\ resp.status = 200
                  /\ resp.content = Text("raw", R[Len(R)]))

C3_Witness ==
    /\ Answered
    /\ Len(tried) >= 3
    /\ RefsOf("raw") = tried
    /\ resp.success
    /\ resp.content = Text("raw", tried[Len(tried)])

\* C4: when every structured and every raw attempt fails, the response is
\* 404 and its `tried` lists every attempted name once, in attempt order.
C4_NotFoundListsTried ==
    (Answered /\ ~Aborted
       /\ \A i \in 1..Len(Chain) :
             Chain[i] \notin up.fileOn /\ Chain[i] \notin up.rawOn)
      => /\ resp.status = 404
         /\ ~resp.success
         /\ resp.tried = Chain
         /\ resp.tried = RefsOf("contents")
         /\ resp.tried = RefsOf("raw")
         /\ NoDuplicates(resp.tried)

C4_Witness ==
    /\ Answered
    /\ resp.status = 404
    /\ Len(resp.tried) = 3
    /\ resp.tried[1] \notin {"main", "master"}

\* C5: a failed attempt (an answer other than 200, an error body) does not
\* end the resolution: a resolution ends only with content from an answer
\* of 200, with a raised call, or with every candidate attempted by both
\* methods.
C5_FailureOnlyEliminates ==
    /\ (Resolving /\ calls # <<>> /\ calls[Len(calls)].api = "contents"
        /\ calls[Len(calls)].status \notin {0, 200})
         => (pc # "done" /\ content = None)
    /\ Answered =>
         \/ /\ resp.success
            /\ calls[Len(calls)].status = 200
            /\ calls[Len(calls)].api \in {"contents", "raw"}
         \/ /\ resp.status = 500
            /\ calls[Len(calls)].status = 0
            /\ calls[Len(calls)].api \in {"contents", "repo"}
         \/ /\ resp.status = 404
            /\ RefsOf("contents") = Chain
            /\ RefsOf("raw") = Chain

C5_Witness ==
    /\ Answered
    /\ resp.success
    /\ Len(RefsOf("contents")) = 3
    /\ StatusesOf("contents")[1] = 401
    /\ Len(RefsOf("raw")) = 2

\* C6: a not-found answer is never given when the attempts failed because
\* the upstream rejected the token or could not be reached: the 404 "File
\* not found" response means every attempt was answered "not found".
C6_NotFoundDistinguishable ==
    (Answered /\ resp.status = 404) =>
      \A i \in 1..Len(calls) : calls[i].status \in {200, 404}

\* ======================================================================
\* Properties of the uploads and of repository creation
\* ======================================================================
Written(c) == c.method = "PUT" /\ c.status \in {200, 201}

\* An upload request whose body ran has answered.
Uploaded3 ==
    /\ req.endpoint = "api_upload_files"
    /\ pc = "done"
    /\ calls # <<>>

\* Where the pass that produced `results` starts in the log: after the PUT
\* whose exception ended bulk_upload, when there was one.
PassStart ==
    IF caller = "bulk_upload" THEN 0
    ELSE CHOOSE j \in 1..Len(calls) :
           /\ calls[j].method = "PUT" /\ calls[j].status = 0
           /\ \A k \in 1..(j - 1) : ~(calls[k].method = "PUT" /\ calls[k].status = 0)

\* C7: an upload of N files answers N results in upload-list order; every
\* file is written (its PUT is issued) whatever happened to the others; a
\* file's result is its JSON exactly when its PUT was accepted and is its
\* own error otherwise; no file written before is removed.
C7_PerFileResults ==
    /\ Uploaded3 =>
         /\ resp.success
         /\ Len(resp.files) = Len(upload_list)
         /\ Len(calls) = PassStart + 2 * Len(upload_list)
         /\ \A i \in 1..Len(upload_list) :
              LET put == calls[PassStart + 2 * i]
                  res == resp.files[i]
              IN /\ put.method = "PUT" /\ put.arg = upload_list[i]
                 /\ Written(put) <=> res = Uploaded(upload_list[i])
                 /\ ~Written(put) =>
                      /\ IsErrorDict(res)
                      /\ put.status = 0 <=> res.error = "exception"
                      /\ put.status = 401 <=> res.error = "Bad credentials"
    /\ req.endpoint = "api_upload_files" =>
         /\ \A j \in 1..Len(calls) : calls[j].method \in {"GET", "PUT"}
         /\ \A j \in 1..Len(calls) :
               Written(calls[j]) => store[calls[j].arg] # NoSha

C7_Witness ==
    /\ Uploaded3
    /\ Len(upload_list) = 3
    /\ upload_list[1] # upload_list[2]
    /\ resp.files[1] = Uploaded(upload_list[1])
    /\ IsErrorDict(resp.files[2])
    /\ resp.files[3] = Uploaded(upload_list[3])
    /\ store[upload_list[1]] # NoSha

\* C8: when the lookup of api_create_repo finds the repository, no creation
\* request is sent and the answer is "already exists", an answer that no
\* attempted creation that fails produces.
C8_ExistingRepoNotCreated ==
    req.endpoint = "api_create_repo" =>
      /\ (calls # <<>> /\ calls[1].status = 200)
           => /\ \A j \in 1..Len(calls) : calls[j].method # "POST"
              /\ pc = "done"
              /\ resp = Json(200, FALSE, "Repository already exists.")
      /\ (pc = "done" /\ \E j \in 1..Len(calls) :
                            calls[j].method = "POST" /\ calls[j].status # 201)
           => /\ resp.status \in {400, 500}
              /\ resp # Json(200, FALSE, "Repository already exists.")
      /\ (pc = "done" /\ resp = Json(200, FALSE, "Repository already exists."))
           => Len(calls) = 1

C8_Witness ==
    /\ req.endpoint = "api_create_repo"
    /\ pc = "done"
    /\ up.default = "main"
    /\ calls # <<>>
    /\ calls[1].status = 200
    /\ resp.error = "Repository already exists."

\* C9: every PUT of upload_file directly follows its lookup of the same
\* path and carries the sha of that lookup's answer exactly when the lookup
\* answered 200; after a lookup that answered not-found, was refused or
\* raised, the PUT is still issued, without sha.
C9_ShaFromLookup ==
    /\ \A j \in 1..Len(calls) :
         (calls[j].method = "PUT" /\ calls[j].api = "contents") =>
           /\ j > 1
           /\ calls[j - 1].method = "GET"
           /\ calls[j - 1].api = "contents"
           /\ calls[j - 1].arg = calls[j].arg
           /\ calls[j - 1].status = 200
                => (calls[j].sha = calls[j - 1].sha /\ calls[j].sha # NoSha)
           /\ calls[j - 1].status # 200 => calls[j].sha = NoSha
    /\ pc = "uf_put" =>
         /\ calls[Len(calls)].arg = CurrentPath
         /\ sha = IF calls[Len(calls)].status = 200 THEN store[CurrentPath]
                                                    ELSE NoSha
    /\ Uploaded3 =>
         \A j \in 1..Len(calls) :
            calls[j].method = "GET" =>
              (j < Len(calls) /\ calls[j + 1].method = "PUT"
               /\ calls[j + 1].arg = calls[j].arg)

C9_Witness ==
    /\ Uploaded3
    /\ \E j, k \in 1..Len(calls) :
         /\ calls[j].method = "PUT" /\ calls[j].sha # NoSha
         /\ calls[k].method = "PUT" /\ calls[k].sha = NoSha
         /\ calls[k - 1].status = 404
    /\ \E k \in 2..Len(calls) :
         calls[k].method = "PUT" /\ calls[k - 1].status = 0

\* ======================================================================
\* Properties of the session
\* ======================================================================
\* The endpoints that work with the session's token.
TokenEndpoints ==
    {"api_repos", "api_create_repo", "api_delete_repo", "api_upload_files",
     "api_list_files", "api_get_file", "api_delete_file", "api_run",
     "api_download", "api_add_cicd", "api_whoami"}

\* C10: a request to an endpoint that needs the token, made while the
\* session holds none, makes no outbound call and is answered 401 with
\* success = false.
C10_NoTokenIs401 ==
    (pc # "idle" /\ session.pat = Blank /\ req.endpoint \in TokenEndpoints)
      => /\ calls = <<>>
         /\ pc = "done" => (resp.status = 401 /\ ~resp.success)

\* ======================================================================
\* Properties of validation
\* ======================================================================
\* A required field of the request is missing or blank.
RequiredBlank ==
    CASE req.endpoint \in {"api_create_repo", "api_delete_repo",
                           "api_upload_files", "api_add_cicd"} ->
           strip(req.repo) = Blank
      [] req.endpoint \in {"api_delete_file", "api_get_file", "api_run"} ->
           strip(req.repo) = Blank \/ strip(req.path) = Blank
      [] OTHER -> FALSE

\* C11: a request of a session that holds a token, with a required field
\* missing or blank, makes no outbound call and is answered 400.
C11_BlankFieldIs400 ==
    (pc # "idle" /\ session.pat # Blank /\ RequiredBlank)
      => /\ calls = <<>>
         /\ pc = "done" => resp.status = 400

\* ======================================================================
\* Properties of /api/run
\* ======================================================================
IsPiston(c) == c.api = "piston"

\* The calls made to the execution endpoints, in the order made.
PistonCalls == SelectSeq(calls, IsPiston)

\* C12 as stated: the first execution endpoint that answers 200 ends the
\* loop and its result is the response.
C12_First200Ends ==
    req.endpoint = "api_run" =>
      \A i \in 1..Len(PistonCalls) :
         PistonCalls[i].status = 200 =>
           /\ i = Len(PistonCalls)
           /\ pc = "done"
           /\ resp.status = 200

\* C12, amended: the execution endpoints are called in list order with the
\* same payload; the first one that answers 200 with a JSON body ends the
\* loop and its result is the response; a later endpoint is called only
\* when every earlier one failed (another status, a body that does not
\* parse, an exception); when all fail the response is 502.
C12_EndpointOrder ==
    req.endpoint = "api_run" =>
      LET P == PistonCalls
          n == Len(PistonCalls)
      IN /\ n <= Len(PISTON_ENDPOINTS)
         /\ \A i \in 1..n :
              /\ P[i].method = "POST"
              /\ P[i].arg = PISTON_ENDPOINTS[i]
              /\ P[i].payload = piston_payload
              /\ (P[i].status = 200 /\ P[i].json) =>
                   /\ i = n
                   /\ pc = "done"
                   /\ resp.status = 200 /\ resp.success
                   /\ resp.content = Text("run", PISTON_ENDPOINTS[i])
         /\ (n > 0 /\ ~(P[n].status = 200 /\ P[n].json)) =>
              /\ pc = "run_piston" => idx = n + 1
              /\ pc = "done" => /\ n = Len(PISTON_ENDPOINTS)
                                /\ resp = Json(502, FALSE, "Execution service failed")
         /\ (pc = "done" /\ resp.status = 502) => n = Len(PISTON_ENDPOINTS)

C12_Witness ==
    /\ req.endpoint = "api_run"
    /\ pc = "done"
    /\ Len(PistonCalls) = 2
    /\ PistonCalls[1].status = 200 /\ ~PistonCalls[1].json
    /\ PistonCalls[2].status = 200 /\ PistonCalls[2].json
    /\ resp.content = Text("run", PISTON_ENDPOINTS[2])

\* ======================================================================
\* Frame of the resolution
\* ======================================================================
\* The first name of s that is in the set on, or Blank.
FirstOn(s, on) ==
    IF \E i \in 1..Len(s) : s[i] \in on
      THEN s[CHOOSE i \in 1..Len(s) :
                /\ s[i] \in on
                /\ \A j \in 1..(i - 1) : s[j] \notin on]
      ELSE Blank

\* The response as a function of the request's key and the upstream state.
ResultOf(r, u) ==
    LET chain == Dedup(<<r.branch, u.default, "main", "master">>)
    IN IF FirstOn(chain, u.fileOn) # Blank
         THEN [Json(200, TRUE, Blank)
                 EXCEPT !.content = Text("api", FirstOn(chain, u.fileOn))]
       ELSE IF FirstOn(chain, u.rawOn) # Blank
         THEN [Json(200, TRUE, Blank)
                 EXCEPT !.content = Text("raw", FirstOn(chain, u.rawOn))]
       ELSE [Json(404, FALSE, "File not found on branches tried")
               EXCEPT !.tried = chain]

NoCallRaised == \A i \in 1..Len(calls) : calls[i].status # 0

IsPut(c) == c.method = "PUT"

\* The paths of the content PUTs of the request, in the order sent.
PutPaths == [i \in 1..Len(SelectSeq(calls, IsPut)) |-> SelectSeq(calls, IsPut)[i].arg]

\* C14: within one api_upload_files request the content PUTs follow the
\* upload list, one PUT at most for each file of the list, whatever the
\* uploads answered.
C14_PutAtMostOnce ==
    (req.endpoint = "api_upload_files" /\ pc # "idle")
      => IsPrefix(PutPaths, upload_list)

\* ======================================================================
\* Session lifecycle
\* ======================================================================
\* The request that has just been answered was a logout.
LoggedOut ==
    /\ pc = "done"
    /\ \/ req.endpoint = Blank /\ resp = Json(302, FALSE, "index")
       \/ req.endpoint = "api_settings"
            /\ resp.content = Text("message", "Logged out")

\* GitHub answered 401 to a call made with the session's token.
TokenRejected ==
    /\ req.endpoint \in TokenEndpoints
    /\ \E i \in 1..Len(calls) : calls[i].status = 401

\* C15: the session holds a token only together with the username that the
\* login's user lookup gave for it; after a logout, and after the upstream
\* has answered that the token is invalid, it holds neither.
C15_SessionLifecycle ==
    /\ session.pat # Blank =>
         (session.pat \in Tokens /\ session.username = UserOf(session.pat))
    /\ session.pat = Blank => session.username = Blank
    /\ LoggedOut => session = NoSession
    /\ (pc = "done" /\ TokenRejected) => session = NoSession

\* ======================================================================
\* Properties of delete_file
\* ======================================================================
\* C16: the DELETE of delete_file directly follows a lookup of the same
\* path that answered 200 and carries the sha of that answer; after a
\* lookup that did not answer 200 no DELETE is sent and the response is a
\* failure: 400 "File not found" (500 when the lookup raised).
C16_DeleteAfterLookup ==
    (req.endpoint = "api_delete_file" /\ calls # <<>>) =>
      /\ calls[1].method = "GET" /\ calls[1].api = "contents"
      /\ calls[1].arg = req.path
      /\ \A j \in 1..Len(calls) :
           calls[j].method = "DELETE" =>
             /\ j = 2
             /\ calls[1].status = 200
             /\ calls[j].api = "contents"
             /\ calls[j].arg = calls[1].arg
             /\ calls[j].sha = calls[1].sha
             /\ calls[j].sha # NoSha
      /\ calls[1].status = 200 =>
           (pc = "df_delete" => (Len(calls) = 1 /\ sha = calls[1].sha))
      /\ calls[1].status # 200 =>
           /\ Len(calls) = 1
           /\ pc = "done"
           /\ ~resp.success
           /\ resp = IF calls[1].status = 0 THEN Json(500, FALSE, "exception")
                     ELSE Json(400, FALSE, "File not found")

C16_Witness ==
    /\ req.endpoint = "api_delete_file"
    /\ pc = "done"
    /\ Len(calls) = 2
    /\ calls[1].status = 200
    /\ calls[2].method = "DELETE"
    /\ calls[2].sha = calls[1].sha
    /\ calls[2].status = 200
    /\ resp.success
    /\ store[req.path] = NoSha
====
